---- MODULE Spec2Model ----
(***************************************************************************)
(* Model of data-scripts/build_keyboard_adjacency_graphs.py: build_graph   *)
(* turns the text diagram of a keyboard into an adjacency graph.           *)
(*                                                                         *)
(* Python values are modelled as follows.                                  *)
(*   str        a TLA+ string; s[i] is SubSeq(s, i+1, i+1)                 *)
(*   list       a sequence                                                 *)
(*   dict       position_table: the sequence of its items in insertion     *)
(*              order (the order in which Python 3 iterates over a dict),  *)
(*              each [coord |-> <<x, y>>, token |-> str];                  *)
(*              adjacency_graph: a function from its keys (one-character   *)
(*              strings) to its values                                     *)
(*   None / str an entry of an adjacency list is <<>> for None and <<t>>   *)
(*              for the string t                                           *)
(* Strings hold ASCII characters only (the module is an ASCII file); the   *)
(* generated diagrams use the separators " " and "\n".                     *)
(***************************************************************************)
EXTENDS Integers, Sequences, FiniteSets, TLC

VARIABLES
  layout_str,      \* argument: the diagram
  slanted,         \* argument: the geometry
  pc,              \* where the call is: "start", "parse", "build", "done"
  error,           \* the exception the call raised, "" if none
  x_unit,          \* local: token_size + 1
  cur_y,           \* first loop: the row being read
  cur_token,       \* first loop: the next token of the row, counted from 1
  position_table,  \* local: (x, y) -> token
  cur_item,        \* second loop: the next item of position_table, from 1
  cur_char,        \* second loop: the next character of the item, from 1
  adjacency_graph  \* local, then the value returned

vars == <<layout_str, slanted, pc, error, x_unit, cur_y, cur_token, position_table,
          cur_item, cur_char, adjacency_graph>>

(***************************************************************************)
(* Bounds of the generated diagrams.                                       *)
(***************************************************************************)
MaxLen == 7

Alphabet == {"a", "b", " ", "\n"}

(***************************************************************************)
(* The shipped layouts (raw strings, first character is a newline).  The   *)
(* backquote of the first key is taken out of a two-character literal: the *)
(* parser reads a backquote inside a literal as the start of a quotation   *)
(* that runs to the next apostrophe.                                       *)
(***************************************************************************)
Backquote == SubSeq("`'", 1, 1)

qwerty ==
  "\n"
  \o Backquote \o "~ 1! 2@ 3# 4$ 5% 6^ 7& 8* 9( 0) -_ =+\n"
  \o "    qQ wW eE rR tT yY uU iI oO pP [{ ]} \\|\n"
  \o "     aA sS dD fF gG hH jJ kK lL ;: '\"\n"
  \o "      zZ xX cC vV bB nN mM ,< .> /?\n"

dvorak ==
  "\n"
  \o Backquote \o "~ 1! 2@ 3# 4$ 5% 6^ 7& 8* 9( 0) [{ ]}\n"
  \o "    '\" ,< .> pP yY fF gG cC rR lL /? =+ \\|\n"
  \o "     aA oO eE uU iI dD hH tT nN sS -_\n"
  \o "      ;: qQ jJ kK xX bB mM wW vV zZ\n"

keypad ==
  "\n"
  \o "  / * -\n"
  \o "7 8 9 +\n"
  \o "4 5 6\n"
  \o "1 2 3\n"
  \o "  0 .\n"

mac_keypad ==
  "\n"
  \o "  = / *\n"
  \o "7 8 9 -\n"
  \o "4 5 6 +\n"
  \o "1 2 3\n"
  \o "  0 .\n"

GRAPHS ==
  { <<qwerty, TRUE>>, <<dvorak, TRUE>>, <<keypad, FALSE>>, <<mac_keypad, FALSE>> }

(***************************************************************************)
(* Python built-ins used by build_graph.                                   *)
(***************************************************************************)
None == << >>

Some(t) == << t >>

\* the separators of s.split() with no argument: the characters c with
\* c.isspace().  The ASCII ones are U+0009 to U+000D, U+001C to U+001F and
\* U+0020; those without an escape are written as the characters themselves.
\* The separators that are not ASCII (U+0085, U+00A0, U+1680, U+2000 to
\* U+200A, U+2028, U+2029, U+202F, U+205F, U+3000) are no characters of the
\* strings of this module.
Whitespace ==
  { "\t", "\n", "", "\f", "\r",
    "", "", "", "",
    " " }

is_space(s, i) == SubSeq(s, i, i) \in Whitespace

\* the 1-based positions where a maximal run of non-whitespace characters starts
token_starts(s) ==
  {i \in 1..Len(s) : ~is_space(s, i) /\ (i = 1 \/ is_space(s, i - 1))}

\* the last position of the run that starts at i
token_end(s, i) ==
  CHOOSE j \in i..Len(s) :
    /\ \A k \in i..j : ~is_space(s, k)
    /\ j = Len(s) \/ is_space(s, j + 1)

\* the k-th smallest element of a set of integers
nth(S, k) == CHOOSE i \in S : Cardinality({j \in S : j < i}) = k - 1

\* s.split(): the maximal runs of non-whitespace characters, in order
split(s) ==
  LET starts == token_starts(s)
  IN  [k \in 1..Cardinality(starts) |->
         LET i == nth(starts, k) IN SubSeq(s, i, token_end(s, i))]

\* s.split(sep) for a one-character sep: the pieces between the occurrences of
\* sep, empty pieces kept
split_sep(s, sep) ==
  LET cuts == {i \in 1..Len(s) : SubSeq(s, i, i) = sep}
      lo(k) == IF k = 1 THEN 1 ELSE nth(cuts, k - 1) + 1
      hi(k) == IF k = Cardinality(cuts) + 1 THEN Len(s) ELSE nth(cuts, k) - 1
  IN  [k \in 1..(Cardinality(cuts) + 1) |-> SubSeq(s, lo(k), hi(k))]

\* line.index(token): the 0-based offset of the FIRST occurrence of token
index(line, token) ==
  LET occurs(i) == SubSeq(line, i + 1, i + Len(token)) = token
  IN  CHOOSE i \in 0..(Len(line) - Len(token)) :
        occurs(i) /\ \A j \in 0..(i - 1) : ~occurs(j)

\* divmod(a, b) for b > 0: floor division and a remainder in 0..b-1
divmod(a, b) == << a \div b, a % b >>

\* d[k] = v on an insertion-ordered dict
dict_set(d, k, v) ==
  IF \E i \in 1..Len(d) : d[i].coord = k
  THEN [i \in 1..Len(d) |-> IF d[i].coord = k THEN [coord |-> k, token |-> v] ELSE d[i]]
  ELSE Append(d, [coord |-> k, token |-> v])

\* d.get(k, None)
dict_get(d, k) ==
  IF \E i \in 1..Len(d) : d[i].coord = k
  THEN Some(d[CHOOSE i \in 1..Len(d) : d[i].coord = k].token)
  ELSE None

(***************************************************************************)
(* The two geometries.                                                     *)
(***************************************************************************)
\* a slip in the order: the two keys below are swapped
get_slanted_adjacent_coords_swapped(x, y) ==
  << <<x-1, y>>, <<x, y-1>>, <<x+1, y-1>>, <<x+1, y>>, <<x-1, y+1>>, <<x, y+1>> >>

get_slanted_adjacent_coords(x, y) ==
  << <<x-1, y>>, <<x, y-1>>, <<x+1, y-1>>, <<x+1, y>>, <<x, y+1>>, <<x-1, y+1>> >>

\* a slip in the count: the nine coordinates its docstring announces
get_aligned_adjacent_coords_nine(x, y) ==
  << <<x-1, y>>, <<x-1, y-1>>, <<x, y-1>>, <<x+1, y-1>>,
     <<x+1, y>>, <<x+1, y+1>>, <<x, y+1>>, <<x-1, y+1>>, <<x, y>> >>

\* a slip in the order: clockwise from the key above instead of the key to the left
get_aligned_adjacent_coords_from_top(x, y) ==
  << <<x, y-1>>, <<x+1, y-1>>, <<x+1, y>>, <<x+1, y+1>>,
     <<x, y+1>>, <<x-1, y+1>>, <<x-1, y>>, <<x-1, y-1>> >>

get_aligned_adjacent_coords(x, y) ==
  << <<x-1, y>>, <<x-1, y-1>>, <<x, y-1>>, <<x+1, y-1>>,
     <<x+1, y>>, <<x+1, y+1>>, <<x, y+1>>, <<x-1, y+1>> >>

adjacency_func(is_slanted, x, y) ==
  IF is_slanted THEN get_slanted_adjacent_coords(x, y)
                ELSE get_aligned_adjacent_coords(x, y)

(***************************************************************************)
(* build_graph, first loop: the position table.                            *)
(***************************************************************************)
\* the slant of row y
slant_of(is_slanted, y) == IF is_slanted THEN y - 1 ELSE 0

\* x, remainder = divmod(line.index(token) - slant, x_unit)
token_position(line, token, is_slanted, row, unit) ==
  divmod(index(line, token) - slant_of(is_slanted, row), unit)

(***************************************************************************)
(* build_graph, second loop: the adjacency graph.                          *)
(***************************************************************************)
\* a slip: only the unshifted character of a key becomes a key of the graph
iter_chars_first(chars) == [i \in 1..(IF Len(chars) = 0 THEN 0 ELSE 1) |-> SubSeq(chars, i, i)]

\* for char in chars
iter_chars(chars) == [i \in 1..Len(chars) |-> SubSeq(chars, i, i)]

\* a slip: the neighbour is entered as its first character, not as its token
lookup_first_char(table, coord) ==
  IF dict_get(table, coord) = None
  THEN None
  ELSE Some(SubSeq(dict_get(table, coord)[1], 1, 1))

\* position_table.get(coord, None)
lookup(table, coord) == dict_get(table, coord)

\* adjacency_graph[char] = [] followed by one append per adjacent coordinate
adjacency_list(table, coords) ==
  [i \in 1..Len(coords) |-> lookup(table, coords[i])]

\* a slip: a character that is already a key of the graph keeps its first list
graph_set_keep_first(graph, char, list) ==
  [c \in DOMAIN graph \cup {char} |-> IF c \in DOMAIN graph THEN graph[c] ELSE list]

\* adjacency_graph[char] = list
graph_set(graph, char, list) ==
  [c \in DOMAIN graph \cup {char} |-> IF c = char THEN list ELSE graph[c]]

EmptyTable == << >>

EmptyGraph == [c \in {} |-> << >>]

(***************************************************************************)
(* The statistics the generated C++ derives from a graph.                  *)
(***************************************************************************)
\* a slip: every entry counts, the no-neighbor markers included
count_neighbors_all(adj, i) == Len(adj) - (i - 1)

RECURSIVE count_neighbors(_, _)
\* for neighbor in item.second: average += neighbor ? 1 : 0
count_neighbors(adj, i) ==
  IF i > Len(adj) THEN 0
  ELSE (IF adj[i] # None THEN 1 ELSE 0) + count_neighbors(adj, i + 1)

RECURSIVE sum_degrees(_, _)
sum_degrees(graph, keys) ==
  IF keys = {} THEN 0
  ELSE LET c == CHOOSE k \in keys : TRUE
       IN  count_neighbors(graph[c], 1) + sum_degrees(graph, keys \ {c})

\* the numerator of calc_average_degree
degree_total(graph) == sum_degrees(graph, DOMAIN graph)

\* graph.size(): the denominator, and the starting-position count
graph_size(graph) == Cardinality(DOMAIN graph)

(***************************************************************************)
(* The state machine: one call of build_graph, a step per loop iteration.  *)
(***************************************************************************)
RECURSIVE Strings(_)
\* all strings over Alphabet of at most len characters
Strings(len) ==
  IF len = 0 THEN {""}
  ELSE LET shorter == Strings(len - 1)
       IN  shorter \cup {s \o c : s \in shorter, c \in Alphabet}

Inputs == GRAPHS \cup (Strings(MaxLen) \X BOOLEAN)

Init ==
  /\ \E input \in Inputs : layout_str = input[1] /\ slanted = input[2]
  /\ pc = "start"
  /\ error = ""
  /\ x_unit = 0
  /\ cur_y = 0
  /\ cur_token = 1
  /\ position_table = EmptyTable
  /\ cur_item = 1
  /\ cur_char = 1
  /\ adjacency_graph = EmptyGraph

\* an exception leaves build_graph: nothing is returned
Raise(exception) ==
  /\ error' = exception
  /\ pc' = "done"

\* the rows of the diagram, and the tokens of the row being read
lines == split_sep(layout_str, "\n")

row_tokens == split(lines[cur_y + 1])

\* tokens, token_size, x_unit and the assertion on the token lengths
Tokenize ==
  /\ pc = "start"
  /\ LET tokens == split(layout_str)
     IN  IF Len(tokens) = 0
         THEN Raise("IndexError") /\ UNCHANGED x_unit
         ELSE LET token_size == Len(tokens[1])
              IN  IF \E i \in 1..Len(tokens) : Len(tokens[i]) # token_size
                  THEN Raise("AssertionError") /\ UNCHANGED x_unit
                  ELSE /\ x_unit' = token_size + 1
                       /\ pc' = "parse"
                       /\ UNCHANGED error
  /\ UNCHANGED <<layout_str, slanted, cur_y, cur_token, position_table, cur_item,
                 cur_char, adjacency_graph>>

\* one iteration of: for token in line.split()
ParseToken ==
  /\ pc = "parse"
  /\ cur_y < Len(lines)
  /\ cur_token <= Len(row_tokens)
  /\ LET token == row_tokens[cur_token]
         xr    == token_position(lines[cur_y + 1], token, slanted, cur_y, x_unit)
     IN  IF xr[2] # 0
         THEN Raise("AssertionError") /\ UNCHANGED <<position_table, cur_token>>
         ELSE /\ position_table' = dict_set(position_table, <<xr[1], cur_y>>, token)
              /\ cur_token' = cur_token + 1
              /\ UNCHANGED <<pc, error>>
  /\ UNCHANGED <<layout_str, slanted, x_unit, cur_y, cur_item, cur_char,
                 adjacency_graph>>

\* the row has no token left: on to the next row
NextLine ==
  /\ pc = "parse"
  /\ cur_y < Len(lines)
  /\ cur_token > Len(row_tokens)
  /\ cur_y' = cur_y + 1
  /\ cur_token' = 1
  /\ UNCHANGED <<layout_str, slanted, pc, error, x_unit, position_table, cur_item,
                 cur_char, adjacency_graph>>

\* no row left: adjacency_graph = {} and the second loop starts
StartBuild ==
  /\ pc = "parse"
  /\ cur_y >= Len(lines)
  /\ pc' = "build"
  /\ adjacency_graph' = EmptyGraph
  /\ cur_item' = 1
  /\ cur_char' = 1
  /\ UNCHANGED <<layout_str, slanted, error, x_unit, cur_y, cur_token, position_table>>

\* one iteration of: for char in chars, with its loop over the coordinates
BuildChar ==
  /\ pc = "build"
  /\ cur_item <= Len(position_table)
  /\ cur_char <= Len(iter_chars(position_table[cur_item].token))
  /\ LET coord  == position_table[cur_item].coord
         char   == iter_chars(position_table[cur_item].token)[cur_char]
         coords == adjacency_func(slanted, coord[1], coord[2])
     IN  adjacency_graph' =
           graph_set(adjacency_graph, char, adjacency_list(position_table, coords))
  /\ cur_char' = cur_char + 1
  /\ UNCHANGED <<layout_str, slanted, pc, error, x_unit, cur_y, cur_token,
                 position_table, cur_item>>

\* the item has no character left: on to the next item
NextItem ==
  /\ pc = "build"
  /\ cur_item <= Len(position_table)
  /\ cur_char > Len(iter_chars(position_table[cur_item].token))
  /\ cur_item' = cur_item + 1
  /\ cur_char' = 1
  /\ UNCHANGED <<layout_str, slanted, pc, error, x_unit, cur_y, cur_token, position_table,
                 adjacency_graph>>

\* return adjacency_graph
Return ==
  /\ pc = "build"
  /\ cur_item > Len(position_table)
  /\ pc' = "done"
  /\ UNCHANGED <<layout_str, slanted, error, x_unit, cur_y, cur_token, position_table,
                 cur_item, cur_char, adjacency_graph>>

Next ==
  \/ Tokenize
  \/ ParseToken
  \/ NextLine
  \/ StartBuild
  \/ BuildChar
  \/ NextItem
  \/ Return

Spec == Init /\ [][Next]_vars

\* the call returned a graph
Returned == pc = "done" /\ error = ""

\* the call raised an exception
Raised == pc = "done" /\ error # ""

TypeOK ==
  /\ pc \in {"start", "parse", "build", "done"}
  /\ error \in {"", "IndexError", "AssertionError"}
  /\ slanted \in BOOLEAN

(***************************************************************************)
(* Vocabulary of the properties, stated on the diagram itself.             *)
(***************************************************************************)
NeighborCount(is_slanted) == IF is_slanted THEN 6 ELSE 8

\* the offsets of the directions, in index order
SlantedOffsets ==
  << <<-1, 0>>, <<0, -1>>, <<1, -1>>, <<1, 0>>, <<0, 1>>, <<-1, 1>> >>

AlignedOffsets ==
  << <<-1, 0>>, <<-1, -1>>, <<0, -1>>, <<1, -1>>,
     <<1, 0>>, <<1, 1>>, <<0, 1>>, <<-1, 1>> >>

Offsets(is_slanted) == IF is_slanted THEN SlantedOffsets ELSE AlignedOffsets

Shift(coord, off) == <<coord[1] + off[1], coord[2] + off[2]>>

CharsOf(str) == {SubSeq(str, i, i) : i \in 1..Len(str)}

\* the distinct characters of the tokens of a diagram
DiagramChars(str) == CharsOf(str) \ Whitespace

\* the token occurrences of a line: <<character offset, token>>
Occurrences(line) ==
  {<<i - 1, SubSeq(line, i, token_end(line, i))>> : i \in token_starts(line)}

Rows(str) == split_sep(str, "\n")

RECURSIVE CountOccurrences(_, _)
CountOccurrences(rows, n) ==
  IF n > Len(rows) THEN 0
  ELSE Cardinality(Occurrences(rows[n])) + CountOccurrences(rows, n + 1)

\* the tokens of the diagram are not all of the same length
WidthMismatch(str) ==
  \E i, j \in 1..Len(split(str)) : Len(split(str)[i]) # Len(split(str)[j])

\* some token's offset minus the slant of its row is no multiple of x_unit
Misaligned(str, is_slanted) ==
  /\ Len(split(str)) > 0
  /\ LET unit == Len(split(str)[1]) + 1
     IN  \E n \in 1..Len(Rows(str)) : \E occ \in Occurrences(Rows(str)[n]) :
           (occ[1] - slant_of(is_slanted, n - 1)) % unit # 0

Malformed(str, is_slanted) == WidthMismatch(str) \/ Misaligned(str, is_slanted)

Occupied(table, coord) == \E n \in 1..Len(table) : table[n].coord = coord

TokenAt(table, coord) == table[CHOOSE n \in 1..Len(table) : table[n].coord = coord].token

\* no character is printed on two keys of the table
NoSharedChar(table) ==
  \A m, n \in 1..Len(table) :
    m # n => CharsOf(table[m].token) \cap CharsOf(table[n].token) = {}

\* the last item of the table, in its order, whose token contains c
LastItemWith(table, c) ==
  CHOOSE n \in 1..Len(table) :
    /\ c \in CharsOf(table[n].token)
    /\ \A m \in (n + 1)..Len(table) : c \notin CharsOf(table[m].token)

Generated == Len(layout_str) <= MaxLen

(***************************************************************************)
(* C1: every adjacency list of a returned graph has the neighbor count of  *)
(* the geometry, 6 when slanted and 8 when not, and each of its entries is *)
(* the no-neighbor marker or one string.                                   *)
(***************************************************************************)
C1_ListLength ==
  Returned =>
    \A c \in DOMAIN adjacency_graph :
      /\ Len(adjacency_graph[c]) = (IF slanted THEN 6 ELSE 8)
      /\ \A i \in 1..Len(adjacency_graph[c]) : Len(adjacency_graph[c][i]) <= 1

C1_Witness ==
  /\ Returned
  /\ ~slanted
  /\ \E c \in DOMAIN adjacency_graph :
       /\ Len(adjacency_graph[c]) = 8
       /\ \E i, j \in 1..8 : adjacency_graph[c][i] = None /\ adjacency_graph[c][j] # None

(***************************************************************************)
(* C2, as stated: every entry of graph[c], c at index k of its token, is   *)
(* the marker or the single character at index k of the neighbouring       *)
(* token; on qwerty g maps to [f,t,y,h,b,v] and G to [F,T,Y,H,B,V].        *)
(***************************************************************************)
C2_Original ==
  Returned =>
    /\ \A n \in 1..Len(position_table) :
         \A k \in 1..Len(position_table[n].token) :
           LET c == SubSeq(position_table[n].token, k, k)
           IN  \A i \in 1..Len(adjacency_graph[c]) :
                 \/ adjacency_graph[c][i] = None
                 \/ \E m \in 1..Len(position_table) :
                      adjacency_graph[c][i] = Some(SubSeq(position_table[m].token, k, k))
    /\ layout_str = qwerty =>
         /\ adjacency_graph["g"] =
              <<Some("f"), Some("t"), Some("y"), Some("h"), Some("b"), Some("v")>>
         /\ adjacency_graph["G"] =
              <<Some("F"), Some("T"), Some("Y"), Some("H"), Some("B"), Some("V")>>

(***************************************************************************)
(* C2, as amended: every entry of graph[c] is the marker or the whole      *)
(* token of a key of the table, whatever the index of c in its own token;  *)
(* on qwerty g and G both map to [fF, tT, yY, hH, bB, vV].                 *)
(***************************************************************************)
C2_WholeToken ==
  Returned =>
    /\ \A c \in DOMAIN adjacency_graph :
         \A i \in 1..Len(adjacency_graph[c]) :
           \/ adjacency_graph[c][i] = None
           \/ \E n \in 1..Len(position_table) :
                adjacency_graph[c][i] = Some(position_table[n].token)
    /\ layout_str = qwerty =>
         /\ adjacency_graph["g"] =
              <<Some("fF"), Some("tT"), Some("yY"), Some("hH"), Some("bB"), Some("vV")>>
         /\ adjacency_graph["G"] = adjacency_graph["g"]

C2_Witness ==
  /\ Returned
  /\ layout_str = qwerty
  /\ adjacency_graph["G"][1] = Some("fF")

(***************************************************************************)
(* C3, as stated: in a slanted graph, if the list of c has c2 at index i   *)
(* then the list of c2 has c at index (i + 3) mod 6.                       *)
(***************************************************************************)
C3_Original ==
  (Returned /\ slanted) =>
    \A c \in DOMAIN adjacency_graph :
      \A i \in 0..5 :
        adjacency_graph[c][i + 1] # None =>
          LET c2 == adjacency_graph[c][i + 1][1]
          IN  /\ c2 \in DOMAIN adjacency_graph
              /\ adjacency_graph[c2][((i + 3) % 6) + 1] = Some(c)

(***************************************************************************)
(* C3, as amended: in a slanted graph built from a table on which no       *)
(* character is printed on two keys, if the list of c has the token t2 at  *)
(* index i then the list of every character of t2 has, at index            *)
(* (i + 3) mod 6, the token that contains c.                               *)
(***************************************************************************)
C3_Symmetry ==
  (Returned /\ slanted /\ NoSharedChar(position_table)) =>
    \A c \in DOMAIN adjacency_graph :
      \A i \in 0..5 :
        adjacency_graph[c][i + 1] # None =>
          \A c2 \in CharsOf(adjacency_graph[c][i + 1][1]) :
            /\ c2 \in DOMAIN adjacency_graph
            /\ adjacency_graph[c2][((i + 3) % 6) + 1] # None
            /\ c \in CharsOf(adjacency_graph[c2][((i + 3) % 6) + 1][1])

C3_Witness ==
  /\ Returned
  /\ slanted
  /\ Generated
  /\ NoSharedChar(position_table)
  /\ \E c \in DOMAIN adjacency_graph :
       adjacency_graph[c][5] # None \/ adjacency_graph[c][6] # None

(***************************************************************************)
(* C4, as stated: a diagram whose tokens are not all of the same length,   *)
(* or with a token whose offset minus the slant of its row is no multiple  *)
(* of x_unit, makes build_graph raise and return no graph.                 *)
(***************************************************************************)
C4_MalformedRaises ==
  (pc = "done" /\ Malformed(layout_str, slanted)) =>
    Raised /\ adjacency_graph = EmptyGraph

(***************************************************************************)
(* C5: on keypad and mac_keypad the list of 7 has the marker at the        *)
(* indices 0 (left), 1 (top-left) and 2 (top).                             *)
(***************************************************************************)
C5_KeypadSeven ==
  (pc = "done" /\ layout_str \in {keypad, mac_keypad} /\ ~slanted) =>
    /\ error = ""
    /\ "7" \in DOMAIN adjacency_graph
    /\ adjacency_graph["7"][1] = None
    /\ adjacency_graph["7"][2] = None
    /\ adjacency_graph["7"][3] = None

C5_Witness ==
  /\ Returned
  /\ layout_str = mac_keypad
  /\ adjacency_graph["7"][1] = None
  /\ adjacency_graph["7"][4] # None

(***************************************************************************)
(* C6: on qwerty the graph has N = 94 characters and T = 432 entries that  *)
(* are no marker, so that N < T < 6 * N, and every character has at least  *)
(* one and at most six such entries.                                       *)
(***************************************************************************)
C6_AverageDegree ==
  (pc = "done" /\ layout_str = qwerty /\ slanted) =>
    /\ error = ""
    /\ graph_size(adjacency_graph) = 94
    /\ degree_total(adjacency_graph) = 432
    /\ graph_size(adjacency_graph) < degree_total(adjacency_graph)
    /\ degree_total(adjacency_graph) < 6 * graph_size(adjacency_graph)
    /\ \A c \in DOMAIN adjacency_graph :
         /\ count_neighbors(adjacency_graph[c], 1) >= 1
         /\ count_neighbors(adjacency_graph[c], 1) <= 6

C6_Witness ==
  /\ Returned
  /\ layout_str = qwerty
  /\ adjacency_graph["|"][1] # None
  /\ \A i \in 2..6 : adjacency_graph["|"][i] = None
  /\ \A i \in 1..6 : adjacency_graph["g"][i] # None

(***************************************************************************)
(* C7: the keys of a returned graph are the distinct characters of the     *)
(* tokens of the diagram, each counted once: 94 on qwerty, 15 on keypad.   *)
(***************************************************************************)
C7_StartingPositions ==
  Returned =>
    /\ DOMAIN adjacency_graph = DiagramChars(layout_str)
    /\ graph_size(adjacency_graph) = Cardinality(DiagramChars(layout_str))
    /\ layout_str = qwerty => graph_size(adjacency_graph) = 94
    /\ layout_str = keypad => graph_size(adjacency_graph) = 15

C7_Witness ==
  /\ Returned
  /\ Generated
  /\ Len(position_table) >= 2
  /\ ~NoSharedChar(position_table)
  /\ graph_size(adjacency_graph) = 2

(***************************************************************************)
(* C8, as the docstring of build_graph states: on qwerty g maps to         *)
(* [fF, tT, yY, hH, bB, vV], and on keypad 7 maps to                       *)
(* [None, None, None, =, 8, 5, 4, None].                                   *)
(***************************************************************************)
C8_Docstring ==
  pc = "done" =>
    /\ layout_str = qwerty =>
         adjacency_graph["g"] =
           <<Some("fF"), Some("tT"), Some("yY"), Some("hH"), Some("bB"), Some("vV")>>
    /\ layout_str = keypad =>
         adjacency_graph["7"] =
           <<None, None, None, Some("="), Some("8"), Some("5"), Some("4"), None>>

(***************************************************************************)
(* C9, as stated: for every key of the table, every character c of its     *)
(* token and every index i, entry i of graph[c] is the marker exactly when *)
(* the i-th offset coordinate of that key is unoccupied, and otherwise     *)
(* comes from the token at that coordinate.                                *)
(***************************************************************************)
C9_Original ==
  Returned =>
    \A n \in 1..Len(position_table) :
      \A k \in 1..Len(position_table[n].token) :
        LET c == SubSeq(position_table[n].token, k, k)
        IN  /\ c \in DOMAIN adjacency_graph
            /\ Len(adjacency_graph[c]) = NeighborCount(slanted)
            /\ \A i \in 1..NeighborCount(slanted) :
                 LET coord == Shift(position_table[n].coord, Offsets(slanted)[i])
                 IN  IF Occupied(position_table, coord)
                     THEN \/ adjacency_graph[c][i] = Some(TokenAt(position_table, coord))
                          \/ adjacency_graph[c][i] =
                               Some(SubSeq(TokenAt(position_table, coord), k, k))
                     ELSE adjacency_graph[c][i] = None

(***************************************************************************)
(* C9, as amended: for every character c of the graph, and the last key of *)
(* the table (in the order the table was filled) whose token contains c,   *)
(* entry i of graph[c] is the marker exactly when the i-th offset          *)
(* coordinate of that key is unoccupied, and otherwise is the token at     *)
(* that coordinate.  Every character of every key is a key of the graph.   *)
(***************************************************************************)
C9_DirectionEncoding ==
  Returned =>
    /\ \A n \in 1..Len(position_table) :
         CharsOf(position_table[n].token) \subseteq DOMAIN adjacency_graph
    /\ \A c \in DOMAIN adjacency_graph :
         /\ \E n \in 1..Len(position_table) : c \in CharsOf(position_table[n].token)
         /\ Len(adjacency_graph[c]) = NeighborCount(slanted)
         /\ \A i \in 1..NeighborCount(slanted) :
              LET coord == Shift(position_table[LastItemWith(position_table, c)].coord,
                                 Offsets(slanted)[i])
              IN  IF Occupied(position_table, coord)
                  THEN adjacency_graph[c][i] = Some(TokenAt(position_table, coord))
                  ELSE adjacency_graph[c][i] = None

C9_Witness ==
  /\ Returned
  /\ ~NoSharedChar(position_table)
  /\ \E c \in DOMAIN adjacency_graph :
       /\ Cardinality({n \in 1..Len(position_table) :
                         c \in CharsOf(position_table[n].token)}) = 2
       /\ \E i \in 1..Len(adjacency_graph[c]) : adjacency_graph[c][i] # None

(***************************************************************************)
(* C10, as stated: every token occurrence, at offset col of row y, is      *)
(* recorded in the table at ((col - slant) / x_unit, y), and the table     *)
(* holds one entry per token occurrence of the diagram.                    *)
(***************************************************************************)
C10_OneEntryPerOccurrence ==
  Returned =>
    LET unit == Len(split(layout_str)[1]) + 1
        rows == Rows(layout_str)
    IN  /\ \A n \in 1..Len(rows) : \A occ \in Occurrences(rows[n]) :
             LET coord == <<(occ[1] - slant_of(slanted, n - 1)) \div unit, n - 1>>
             IN  /\ Occupied(position_table, coord)
                 /\ TokenAt(position_table, coord) = occ[2]
        /\ Len(position_table) = CountOccurrences(rows, 1)
====
